---- MODULE Spec2Model ----
(***************************************************************************)
(* err-ctx (src/src/lib.rs): Context<C>, ResultExt and ErrorExt.            *)
(*                                                                         *)
(* The library is a set of pure operations on values.  The state machine   *)
(* is a caller that holds one Result, applies the library's operations to  *)
(* it, formats the error it holds into a sink and walks its chain of       *)
(* sources.                                                                *)
(*                                                                         *)
(* Values.  A failure E handed to the library is one of                    *)
(*   [kind |-> "Str",   msg]      a &str / String (not itself an Error)    *)
(*   [kind |-> "Error", msg]      a concrete std::error::Error, no source  *)
(*   [kind |-> "Box",   inner]    a Box<dyn Error + Send + Sync>           *)
(*   [kind |-> "Context", context, source]   this library's Context<C>     *)
(* and "StringError" is the private error type std boxes a string into.    *)
(***************************************************************************)
EXTENDS Naturals, Sequences, FiniteSets

VARIABLES
    res,        \* the Result the caller holds
    call,       \* the last library call: its name, input and argument
    fArgs,      \* the arguments the with_ctx closure was invoked with in that call
    orig,       \* the Result the caller started from
    wraps,      \* the context values wrapped around orig's failure so far, innermost first
    sink,       \* the formatter the last Display::fmt wrote to
    fmtResult,  \* what that fmt returned: "none", "Ok" or "Err"
    cursor,     \* the source() walk: Option<&dyn Error>
    steps       \* the source() calls of the walk so far

vars == <<res, call, fArgs, orig, wraps, sink, fmtResult, cursor, steps>>

-----------------------------------------------------------------------------
(* Bounds *)

MaxDepth == 3

-----------------------------------------------------------------------------
(* Inputs *)

Messages == {"foo", "No such file or directory"}
Contexts == {"bar", "reading foo.txt"}
OkValues == {"v1", "v2"}
Closures == {"fixed", "echo"}

Ok(v)  == [tag |-> "Ok", val |-> v]
Err(e) == [tag |-> "Err", err |-> e]

Box(x) == [kind |-> "Box", inner |-> x]

Failures ==
    {[kind |-> "Str", msg |-> m] : m \in Messages}
    \cup {[kind |-> "Error", msg |-> m] : m \in Messages}
    \cup {Box([kind |-> "Error", msg |-> m]) : m \in Messages}
    \cup {Box([kind |-> "StringError", msg |-> m]) : m \in Messages}

-----------------------------------------------------------------------------
(* Sinks and formatting *)

\* A formatter over a sink: the chunks written, the write_str calls made, and
\* the call the sink fails at (0: a String, which never fails).
StringSink == [writes |-> <<>>, calls |-> 0, failAt |-> 0]
FailingSink(k) == [writes |-> <<>>, calls |-> 0, failAt |-> k]

\* f.write_str(s): fmt::Result and the formatter after the call.
write_str(f, s) ==
    LET n == f.calls + 1 IN
    IF n = f.failAt
    THEN [ok |-> FALSE, f |-> [f EXCEPT !.calls = n]]
    ELSE [ok |-> TRUE,  f |-> [f EXCEPT !.calls = n, !.writes = Append(@, s)]]

RECURSIVE Concat(_)
Concat(ws) == IF ws = <<>> THEN "" ELSE Head(ws) \o Concat(Tail(ws))

\* Context::new
Context_new(context, source) ==
    [kind |-> "Context", context |-> context, source |-> source]

\* <E as Into<Box<dyn Error + Send + Sync>>>::into
IntoBox(e) ==
    CASE e.kind = "Str" -> Box([kind |-> "StringError", msg |-> e.msg])
      [] e.kind = "Box" -> e
      [] OTHER          -> Box(e)

RECURSIVE Display_fmt(_, _)
\* Context_fmt writing ":" for ": "
M_fmt_no_space(self, f) ==
    LET r1 == write_str(f, self.context) IN
    IF ~r1.ok THEN r1
    ELSE LET r2 == write_str(r1.f, ":") IN
         IF ~r2.ok THEN r2
         ELSE Display_fmt(self.source, r2.f)

\* Context_fmt writing the cause before the context
M_fmt_cause_first(self, f) ==
    LET r1 == Display_fmt(self.source, f) IN
    IF ~r1.ok THEN r1
    ELSE LET r2 == write_str(r1.f, ": ") IN
         IF ~r2.ok THEN r2
         ELSE write_str(r2.f, self.context)

\* Context_fmt without the `?`: every write is attempted
M_fmt_ignores_errors(self, f) ==
    LET r1 == write_str(f, self.context)
        r2 == write_str(r1.f, ": ")
        r3 == Display_fmt(self.source, r2.f)
    IN  [ok |-> r1.ok /\ r2.ok /\ r3.ok, f |-> r3.f]

\* <Context<C> as Display>::fmt, with `?` returning at the first failed write
Context_fmt(self, f) ==
    LET r1 == write_str(f, self.context) IN
    IF ~r1.ok THEN r1
    ELSE LET r2 == write_str(r1.f, ": ") IN
         IF ~r2.ok THEN r2
         ELSE Display_fmt(self.source, r2.f)

\* Display::fmt of any value the library formats
Display_fmt(x, f) ==
    CASE x.kind = "Context" -> Context_fmt(x, f)
      [] x.kind = "Box"     -> Display_fmt(x.inner, f)
      [] OTHER              -> write_str(f, x.msg)

\* ToString::to_string
to_string(x) == Concat(Display_fmt(x, StringSink).f.writes)

-----------------------------------------------------------------------------
(* The library's operations *)

None    == [some |-> FALSE]
Some(x) == [some |-> TRUE, ref |-> x]

\* source() that reports no cause
M_source_none(self) == None

\* source() that goes straight past a nested Context
M_source_skip(self) ==
    IF self.source.inner.kind = "Context"
    THEN Some(self.source.inner.source.inner)
    ELSE Some(self.source.inner)

\* <Context<C> as Error>::source
Context_source(self) == Some(self.source.inner)

\* Error::source of any dyn Error
Error_source(x) ==
    IF x.kind = "Context" THEN Context_source(x) ELSE None

\* ErrorExt::ctx that replaces the context of a Context instead of nesting
M_ctx_flatten(self, context) ==
    IF self.kind = "Context"
    THEN [self EXCEPT !.context = context]
    ELSE [kind |-> "Context", context |-> context, source |-> IntoBox(self)]

\* ErrorExt::ctx that boxes self with Box::new instead of Into::into
M_ctx_rebox(self, context) ==
    [kind |-> "Context", context |-> context, source |-> Box(self)]

\* <T as ErrorExt>::ctx
ErrorExt_ctx(self, context) ==
    [kind |-> "Context", context |-> context, source |-> IntoBox(self)]

\* The caller's closure handed to with_ctx
Apply(fn, e) ==
    IF fn = "fixed" THEN "cfg" ELSE "failed(" \o to_string(e) \o ")"

\* ResultExt::ctx that wraps whatever the Result holds
M_ctx_wraps_success(self, context) ==
    IF self.tag = "Ok"
    THEN Err(ErrorExt_ctx([kind |-> "Str", msg |-> self.val], context))
    ELSE Err(ErrorExt_ctx(self.err, context))

\* <Result<T, E> as ResultExt>::ctx
ResultExt_ctx(self, context) ==
    IF self.tag = "Ok" THEN self
    ELSE Err(ErrorExt_ctx(self.err, context))

\* with_ctx that converts the failure first and hands f the boxed error
M_with_ctx_after_into(self, fn) ==
    IF self.tag = "Ok" THEN [ret |-> self, invoked |-> <<>>]
    ELSE LET boxed   == IntoBox(self.err)
             context == Apply(fn, boxed)
         IN  [ret     |-> Err(Context_new(context, boxed)),
              invoked |-> <<boxed>>]

\* with_ctx that computes the context before looking at the Result
M_with_ctx_eager(self, fn) ==
    IF self.tag = "Ok"
    THEN [ret |-> self, invoked |-> <<[kind |-> "Str", msg |-> self.val]>>]
    ELSE [ret     |-> Err(ErrorExt_ctx(self.err, Apply(fn, self.err))),
          invoked |-> <<self.err>>]

\* <Result<T, E> as ResultExt>::with_ctx: the value returned and the
\* arguments the closure was invoked with
ResultExt_with_ctx(self, fn) ==
    IF self.tag = "Ok" THEN [ret |-> self, invoked |-> <<>>]
    ELSE LET context == Apply(fn, self.err) IN
         [ret     |-> Err(ErrorExt_ctx(self.err, context)),
          invoked |-> <<self.err>>]

RECURSIVE Depth(_)
\* The number of source() steps from x to the end of its chain
Depth(x) ==
    LET s == Error_source(x) IN
    IF s.some THEN 1 + Depth(s.ref) ELSE 0

-----------------------------------------------------------------------------
(* The caller *)

NoCall == [op |-> "none", input |-> Ok("v1"), arg |-> ""]

Init ==
    /\ res \in {Ok(v) : v \in OkValues} \cup {Err(e) : e \in Failures}
    /\ orig = res
    /\ call = NoCall
    /\ fArgs = <<>>
    /\ wraps = <<>>
    /\ sink = StringSink
    /\ fmtResult = "none"
    /\ cursor = None
    /\ steps = 0

\* A call that consumes res ends every borrow of it.
Released ==
    /\ sink' = StringSink
    /\ fmtResult' = "none"
    /\ cursor' = None
    /\ steps' = 0

Wrapped(c) == IF res.tag = "Err" THEN Append(wraps, c) ELSE wraps

\* result.ctx(c)
CallCtx(c) ==
    /\ Len(wraps) < MaxDepth
    /\ res' = ResultExt_ctx(res, c)
    /\ call' = [op |-> "ctx", input |-> res, arg |-> c]
    /\ fArgs' = <<>>
    /\ wraps' = Wrapped(c)
    /\ Released
    /\ UNCHANGED orig

\* result.with_ctx(fn)
CallWithCtx(fn) ==
    /\ Len(wraps) < MaxDepth
    /\ LET r == ResultExt_with_ctx(res, fn) IN
        /\ res' = r.ret
        /\ fArgs' = r.invoked
    /\ call' = [op |-> "with_ctx", input |-> res, arg |-> fn]
    /\ wraps' = IF res.tag = "Err" THEN Append(wraps, Apply(fn, res.err)) ELSE wraps
    /\ Released
    /\ UNCHANGED orig

\* match result { Err(e) => Err(e.ctx(c)), ok => ok }: ErrorExt::ctx on a
\* failure the caller has in hand
CallErrorCtx(c) ==
    /\ Len(wraps) < MaxDepth
    /\ res.tag = "Err"
    /\ res' = Err(ErrorExt_ctx(res.err, c))
    /\ call' = [op |-> "ErrorExt::ctx", input |-> res, arg |-> c]
    /\ fArgs' = <<>>
    /\ wraps' = Append(wraps, c)
    /\ Released
    /\ UNCHANGED orig

\* Err(Context::new(c, e.into()))
CallNew(c) ==
    /\ Len(wraps) < MaxDepth
    /\ res.tag = "Err"
    /\ res' = Err(Context_new(c, IntoBox(res.err)))
    /\ call' = [op |-> "Context::new", input |-> res, arg |-> c]
    /\ fArgs' = <<>>
    /\ wraps' = Append(wraps, c)
    /\ Released
    /\ UNCHANGED orig

\* write!(w, "{}", err) for the Context held, into a sink that fails at its
\* k-th write (never, for k = 0); the report starts afresh, ending any walk
Format(k) ==
    /\ res.tag = "Err"
    /\ res.err.kind = "Context"
    /\ LET r == Context_fmt(res.err, FailingSink(k)) IN
        /\ sink' = r.f
        /\ fmtResult' = IF r.ok THEN "Ok" ELSE "Err"
    /\ cursor' = None
    /\ steps' = 0
    /\ UNCHANGED <<res, call, fArgs, orig, wraps>>

\* let mut cur: &dyn Error = &err
WalkStart ==
    /\ res.tag = "Err"
    /\ res.err.kind = "Context"
    /\ cursor' = Some(res.err)
    /\ steps' = 0
    /\ sink' = StringSink
    /\ fmtResult' = "none"
    /\ UNCHANGED <<res, call, fArgs, orig, wraps>>

\* cur = cur.source()
WalkStep ==
    /\ cursor.some
    /\ cursor' = Error_source(cursor.ref)
    /\ steps' = steps + 1
    /\ UNCHANGED <<res, call, fArgs, orig, wraps, sink, fmtResult>>

Next ==
    \/ \E c \in Contexts : CallCtx(c)
    \/ \E fn \in Closures : CallWithCtx(fn)
    \/ \E c \in Contexts : CallErrorCtx(c)
    \/ \E c \in Contexts : CallNew(c)
    \/ \E k \in 0 .. (2 * MaxDepth + 1) : Format(k)
    \/ WalkStart
    \/ WalkStep

Spec == Init /\ [][Next]_vars

-----------------------------------------------------------------------------
(* What the caller expects, stated from the wraps it asked for *)

\* The display text of an original failure: its message
LeafMsg(e) == IF e.kind = "Box" THEN e.inner.msg ELSE e.msg

\* The original failure as the dyn Error at the end of the chain
LeafDyn(e) ==
    CASE e.kind = "Box" -> e.inner
      [] e.kind = "Str" -> [kind |-> "StringError", msg |-> e.msg]
      [] OTHER          -> e

RECURSIVE ExpectedChunks(_)
\* <<cn, ": ", ..., c1, ": ", display(e)>> for ws = <<c1, ..., cn>>
ExpectedChunks(ws) ==
    IF ws = <<>> THEN <<LeafMsg(orig.err)>>
    ELSE <<ws[Len(ws)], ": ">> \o ExpectedChunks(SubSeq(ws, 1, Len(ws) - 1))

ExpectedText(ws) == Concat(ExpectedChunks(ws))

OnFailure(ops) == call.op \in ops /\ call.input.tag = "Err"
OnSuccess(ops) == call.op \in ops /\ call.input.tag = "Ok"

-----------------------------------------------------------------------------
(* Claims *)

\* C1: ctx and with_ctx applied to Success(v) return Success(v): the result
\* is the input itself and no Context is constructed.
C1_SuccessUnchanged ==
    OnSuccess({"ctx", "with_ctx"}) => res = call.input /\ res.tag = "Ok"

C1_Witness ==
    /\ OnSuccess({"with_ctx"})
    /\ call.arg = "echo"
    /\ res = Ok("v2")

\* C2: the display text of the error returned by ctx(Failure(e), c) is
\* exactly display(c), then ": ", then display(e); "foo" wrapped with "bar"
\* displays as "bar: foo".
C2_DisplayExact ==
    OnFailure({"ctx"}) =>
        /\ to_string(res.err) = call.arg \o ": " \o to_string(call.input.err)
        /\ Len(wraps) = 1 =>
              to_string(res.err) = call.arg \o ": " \o LeafMsg(orig.err)

C2_Witness ==
    /\ OnFailure({"ctx"})
    /\ call.input.err = [kind |-> "Str", msg |-> "foo"]
    /\ call.arg = "bar"
    /\ to_string(res.err) = "bar: foo"

\* C3: with_ctx(Failure(e), f) returns what ctx(Failure(e), f(&e)) returns,
\* and f is invoked exactly once, with the original failure e as it was
\* before its conversion.
C3_WithCtxIsCtxOfF ==
    OnFailure({"with_ctx"}) =>
        /\ res = ResultExt_ctx(call.input, Apply(call.arg, call.input.err))
        /\ fArgs = <<call.input.err>>

C3_Witness ==
    /\ OnFailure({"with_ctx"})
    /\ call.arg = "echo"
    /\ call.input.err = [kind |-> "Str", msg |-> "foo"]
    /\ fArgs = <<[kind |-> "Str", msg |-> "foo"]>>
    /\ res.err.context = "failed(foo)"

\* C4: with_ctx applied to a success value never invokes the closure.
C4_NoCallOnSuccess ==
    OnSuccess({"with_ctx"}) => Len(fArgs) = 0

C4_Witness ==
    /\ OnSuccess({"with_ctx"})
    /\ call.arg = "fixed"
    /\ fArgs = <<>>
    /\ res = Ok("v1")

\* C5: for every Context, however constructed, source() is present and is
\* the wrapped cause: for wrap(e, c) it displays as display(e).
C5_SourceIsCause ==
    OnFailure({"ctx", "with_ctx", "ErrorExt::ctx", "Context::new"}) =>
        LET s == Context_source(res.err) IN
        /\ s.some
        /\ to_string(s.ref) = to_string(call.input.err)
        /\ Len(wraps) = 1 => s.ref = LeafDyn(orig.err)
        /\ Len(wraps) > 1 => s.ref = call.input.err

C5_Witness ==
    /\ OnFailure({"Context::new"})
    /\ call.input.err = [kind |-> "Error", msg |-> "No such file or directory"]
    /\ Context_source(res.err).some
    /\ to_string(Context_source(res.err).ref) = "No such file or directory"

\* C6: a failure e wrapped successively with c1, ..., cn displays as
\* display(cn) ": " ... ": " display(c1) ": " display(e).
C6_NestedDisplay ==
    (res.tag = "Err" /\ Len(wraps) >= 1) =>
        to_string(res.err) = ExpectedText(wraps)

C6_Witness ==
    /\ res.tag = "Err"
    /\ wraps = <<"reading foo.txt", "bar">>
    /\ to_string(res.err) = "bar: reading foo.txt: foo"

\* C7: a Failure stays a Failure and a Success stays a Success through any
\* sequence of calls, and each call on the failure path adds exactly one
\* Context layer: after k wraps the chain is k layers above the original.
C7_WrapsAndForwards ==
    /\ res.tag = orig.tag
    /\ res.tag = "Ok" => res = orig /\ wraps = <<>>
    /\ res.tag = "Err" => Depth(res.err) = Len(wraps)
    /\ OnFailure({"ctx", "with_ctx", "ErrorExt::ctx", "Context::new"}) =>
          Depth(res.err) = Depth(call.input.err) + 1

C7_Witness ==
    /\ OnFailure({"ctx"})
    /\ Len(wraps) = 3
    /\ Depth(call.input.err) = 2
    /\ Depth(res.err) = 3

\* C8: following source() from an error made by n nested wraps visits the n
\* Context layers outermost first (the i-th carries c(n-i+1)), reaches the
\* original error after exactly n steps, and ends there.
C8_WalkVisitsLayers ==
    (cursor.some \/ steps > 0) =>
        LET n == Len(wraps) IN
        /\ steps <= n + 1
        /\ steps < n =>
              /\ cursor.some
              /\ cursor.ref.kind = "Context"
              /\ cursor.ref.context = wraps[n - steps]
        /\ steps = n =>
              /\ cursor.some
              /\ cursor.ref = LeafDyn(orig.err)
        /\ steps = n + 1 => ~ cursor.some

C8_Witness ==
    /\ Len(wraps) = 3
    /\ steps = 3
    /\ cursor.some
    /\ cursor.ref = [kind |-> "StringError", msg |-> "foo"]

\* C9: the error inside ResultExt::ctx(Failure(e), c) is ErrorExt::ctx(e, c),
\* which is Context::new(c, boxed(e)): context c, cause the boxed e; the
\* wrap itself never fails.
C9_WrapsAgree ==
    /\ OnFailure({"ctx"}) =>
          /\ res.tag = "Err"
          /\ res.err = ErrorExt_ctx(call.input.err, call.arg)
    /\ OnFailure({"ctx", "ErrorExt::ctx"}) =>
          /\ res.tag = "Err"
          /\ res.err = Context_new(call.arg, IntoBox(call.input.err))
          /\ res.err.context = call.arg
          /\ res.err.source.kind = "Box"
          /\ res.err.source.inner = LeafDyn(call.input.err)

C9_Witness ==
    /\ OnFailure({"ctx"})
    /\ call.input.err = Box([kind |-> "Error", msg |-> "foo"])
    /\ res.err = Context_new("bar", Box([kind |-> "Error", msg |-> "foo"]))

\* C10: fmt writes the context, then ": ", then the cause, stops at the
\* first write that fails and returns that failure; it returns success only
\* when every part was written.
C10_FmtStopsAtFailure ==
    fmtResult # "none" =>
        LET full == ExpectedChunks(wraps)
            k    == sink.failAt
        IN  /\ res.tag = "Err"
            /\ full[1] = res.err.context
            /\ full[2] = ": "
            /\ IF k = 0 \/ k > Len(full)
               THEN fmtResult = "Ok" /\ sink.writes = full
               ELSE /\ fmtResult = "Err"
                    /\ sink.writes = SubSeq(full, 1, k - 1)
                    /\ sink.calls = k

C10_Witness ==
    /\ fmtResult = "Err"
    /\ sink.failAt = 2
    /\ sink.writes = <<"bar">>
    /\ Len(wraps) = 2

====
